---- MODULE Spec2Model ----
(***************************************************************************)
(* simweb: discrete-event simulation of a request-serving web server       *)
(* (src/simweb/simulation.py), run on the simpy event scheduler.           *)
(*                                                                         *)
(* One state of the model is one event boundary of env.run(): the clock,   *)
(* the schedule (the heap of (time, priority, eid, event)), the two        *)
(* resources, the arrival loop's locals, every request's process and       *)
(* service sub-process, and the output columns.  One action is one         *)
(* env.step(): the pop of a smallest event and the run of its callbacks,   *)
(* each resumed generator running up to its next yield.                    *)
(*                                                                         *)
(* Time is in integer milliseconds.  The samplers are the defaults of       *)
(* simulate_server: time_exponential for CPU and I/O, arrival_poisson for  *)
(* the inter-arrival times.                                                *)
(***************************************************************************)
EXTENDS Integers, Sequences, FiniteSets, TLC

\* ------------------------------------------------------------------ bounds

\* Arrivals the arrival loop makes before its next inter-arrival sample is
\* taken beyond the horizon (the loop itself is `while True`).
MaxArrivals == 2

\* Raw variates of the seeded generator: a standard exponential draw e (the
\* samplers scale it: rng.exponential(scale) = scale * e) or, for
\* rng.random(), the numerator of a split in halves.
Draws == {0, 1}

\* ----------------------------------------------- parameters of simulate_server

Modes == {"sync", "async"}
ThreadCounts == {1, 2}
IoLimits == {1, 2}
QueueLimits == {0, 1}
TimeoutsMs == {0, 2}
WarmupsMs == {0, 1}
SimTimesMs == {4}
CpuMeansMs == {2}
IoMeansMs == {1}
\* 1000 / rate_rps, the scale of arrival_poisson, in ms
ArrivalScalesMs == {1}

\* the keyword arguments of simulate_server, with these capacities and timeouts
ConfigSet(threads, ios, timeouts) ==
    [mode : Modes, thread_count : threads, io_limit : ios,
     queue_limit : QueueLimits, timeout_ms : timeouts, warmup_ms : WarmupsMs,
     sim_time_ms : SimTimesMs, cpu_mean_ms : CpuMeansMs, io_mean_ms : IoMeansMs,
     arrival_scale_ms : ArrivalScalesMs]

Configs == ConfigSet(ThreadCounts, IoLimits, TimeoutsMs)

\* --------------------------------------------------------------- constants

\* STATUS_MAP
COMPLETED == 0
TIMEOUT == 1
DROPPED == 2

\* simpy event priorities
URGENT == 0
NORMAL == 1

Pools == {"worker", "io"}

\* ------------------------------------------------------------------- state

VARIABLES
    cfg,        \* the parameters of this run
    status,     \* "running" | "stopped" (env.run returned) | "rejected"
                \* (simulate_server raised before env.run)
    now,        \* env.now
    eidc,       \* env._eid: the next event id
    queue,      \* env._queue: the scheduled events
    req_id,     \* _arrival_process: req_id
    in_system,  \* _arrival_process: in_system
    proc,       \* per arrival: its request process and service sub-process
    users,      \* per pool: Resource.users
    putq,       \* per pool: Resource.put_queue (requests not yet granted)
    records,    \* the column stores, one row per record, in append order
    arrLog,     \* history: per arrival, its time and whether it was admitted
    drawLog,    \* history: the samplers called on the generator, in order,
                \* each with the arrival it is drawn for
    other,      \* a second run of simulate_server (SpecTwoRuns), as one value
    stream      \* the variates the seed yields, as far as either run has drawn
                \* (SpecTwoRuns)

vars == <<cfg, status, now, eidc, queue, req_id, in_system, proc, users, putq,
          records, arrLog, drawLog, other, stream>>

\* The run's state as one value: the handlers below are functions of it.
Cur ==
    [cfg |-> cfg, status |-> status, now |-> now, eidc |-> eidc, queue |-> queue,
     req_id |-> req_id, in_system |-> in_system, proc |-> proc, users |-> users,
     putq |-> putq, records |-> records, arrLog |-> arrLog, drawLog |-> drawLog]

\* the run's state becomes t (t is evaluated once)
Install(t) ==
    \E u \in {t} :
        /\ cfg' = u.cfg
        /\ status' = u.status
        /\ now' = u.now
        /\ eidc' = u.eidc
        /\ queue' = u.queue
        /\ req_id' = u.req_id
        /\ in_system' = u.in_system
        /\ proc' = u.proc
        /\ users' = u.users
        /\ putq' = u.putq
        /\ records' = u.records
        /\ arrLog' = u.arrLog
        /\ drawLog' = u.drawLog

\* the arrivals of a run, in order; the longest runs make MaxArrivals + 1
Procs == 1..(MaxArrivals + 1)

\* A request that has not arrived (or was dropped: no process is spawned).
NoProc ==
    [rp |-> "none", req_id |-> 0, arrival_time |-> 0, recorded |-> FALSE,
     timer |-> "none", cond |-> "none", svc |-> "none",
     cpu_pre |-> 0, cpu_post |-> 0, io_wait |-> 0]

\* ------------------------------------------------------------ derived config

\* worker_pool = Resource(capacity = 1 if async else thread_count),
\* io_pool = Resource(capacity = io_limit)
NumThreads(c) == IF c.mode = "async" THEN 1 ELSE c.thread_count

Capacity(c, p) == IF p = "worker" THEN NumThreads(c) ELSE c.io_limit

MaxInSystem(c) == NumThreads(c) + c.queue_limit

\* ---------------------------------------------------------------- sequences

RECURSIVE Remove(_, _)
\* list.remove(x) with the ValueError swallowed: the first x goes, if any
Remove(q, x) ==
    IF q = <<>> THEN <<>>
    ELSE IF Head(q) = x THEN Tail(q)
    ELSE <<Head(q)>> \o Remove(Tail(q), x)

\* ---------------------------------------------------------------- scheduler

\* heap order of (time, priority, eid)
Before(a, b) ==
    \/ a.time < b.time
    \/ a.time = b.time /\ a.prio < b.prio
    \/ a.time = b.time /\ a.prio = b.prio /\ a.eid < b.eid

\* what heappop may return: an event no other event is before
Smallest(q) == {e \in q : \A f \in q : ~Before(f, e)}

\* Mutant of Schedule: every event gets the same eid, so events of one time
\* and priority are no longer ordered.
ScheduleWithoutEid(s, prio, delay, kind, k, pool) ==
    [s EXCEPT
        !.queue = @ \cup {[time |-> s.now + delay, prio |-> prio, eid |-> 0,
                           kind |-> kind, k |-> k, pool |-> pool]}]

\* env.schedule(event, priority, delay)
Schedule(s, prio, delay, kind, k, pool) ==
    [s EXCEPT
        !.queue = @ \cup {[time |-> s.now + delay, prio |-> prio, eid |-> s.eidc,
                           kind |-> kind, k |-> k, pool |-> pool]},
        !.eidc = @ + 1]

\* env.step(): self._now, _, _, event = heappop(self._queue)
Pop(s, e) == [s EXCEPT !.now = e.time, !.queue = @ \ {e}]

\* ----------------------------------------------------------------- resource

\* Mutant of TriggerPut: the capacity test is off by one.
TriggerPutOverCapacity(s, p) ==
    IF s.putq[p] = <<>> THEN s
    ELSE LET h == Head(s.putq[p]) IN
         IF Len(s.users[p]) <= Capacity(s.cfg, p)
         THEN Schedule([s EXCEPT !.users[p] = Append(@, h), !.putq[p] = Tail(@)],
                       NORMAL, 0, "request", h, p)
         ELSE s

\* BaseResource._trigger_put with Resource._do_put: the head of the put queue
\* is granted if a slot is free; _do_put returns None, so the loop stops
\* after the head.
TriggerPut(s, p) ==
    IF s.putq[p] = <<>> THEN s
    ELSE LET h == Head(s.putq[p]) IN
         IF Len(s.users[p]) < Capacity(s.cfg, p)
         THEN Schedule([s EXCEPT !.users[p] = Append(@, h), !.putq[p] = Tail(@)],
                       NORMAL, 0, "request", h, p)
         ELSE s

\* Mutant of Request: a caller that finds a slot free takes it, whoever waits.
RequestBarging(s, p, k) ==
    IF Len(s.users[p]) < Capacity(s.cfg, p)
    THEN Schedule([s EXCEPT !.users[p] = Append(@, k)], NORMAL, 0, "request", k, p)
    ELSE [s EXCEPT !.putq[p] = Append(@, k)]

\* pool.request(): Put.__init__ appends to the put queue and triggers it
Request(s, p, k) == TriggerPut([s EXCEPT !.putq[p] = Append(@, k)], p)

\* Mutant of ExitRequest: no cancel(), so a request that was never granted
\* stays in the put queue.
ExitRequestWithoutCancel(s, p, k) ==
    Schedule([s EXCEPT !.users[p] = Remove(@, k)], NORMAL, 0, "release", k, p)

\* Mutant of ExitRequest: the slot is given back but no Release is scheduled,
\* so nothing offers it to the waiters.
ExitRequestWithoutRelease(s, p, k) ==
    [s EXCEPT !.putq[p] = Remove(@, k), !.users[p] = Remove(@, k)]

\* Request.__exit__: cancel() (leave the put queue if not yet triggered), then
\* pool.release(request): _do_get removes it from users and the Release event
\* succeeds at once; its callback _trigger_put runs when it is popped.
ExitRequest(s, p, k) ==
    Schedule([s EXCEPT !.putq[p] = Remove(@, k), !.users[p] = Remove(@, k)],
             NORMAL, 0, "release", k, p)

\* ------------------------------------------------------------------ service

\* the service sub-process suspends on env.timeout(d)
Hold(s, k, d, pc) ==
    Schedule([s EXCEPT !.proc[k].svc = pc], NORMAL, d, "hold", k, "none")

\* the service sub-process suspends on a pool.request()
Acquire(s, k, p, pc) == Request([s EXCEPT !.proc[k].svc = pc], p, k)

AppendRecord(s, id, arrival, finish, latency, st) ==
    [s EXCEPT !.records = Append(@, [req_id |-> id, arrival_time |-> arrival,
                                     finish_time |-> finish, latency_ms |-> latency,
                                     status |-> st])]

\* Mutant of ServiceRecord: the warmup gate is strict.
ServiceRecordStrictWarmup(s, k, st) ==
    LET p == s.proc[k] IN
    IF p.arrival_time > s.cfg.warmup_ms /\ ~p.recorded
    THEN [AppendRecord(s, p.req_id, p.arrival_time, s.now, s.now - p.arrival_time, st)
            EXCEPT !.proc[k].recorded = TRUE]
    ELSE s

\* Mutant of ServiceRecord: the finish time is stored as the latency.
ServiceRecordFinishAsLatency(s, k, st) ==
    LET p == s.proc[k] IN
    IF p.arrival_time >= s.cfg.warmup_ms /\ ~p.recorded
    THEN [AppendRecord(s, p.req_id, p.arrival_time, s.now, s.now, st)
            EXCEPT !.proc[k].recorded = TRUE]
    ELSE s

\* Mutant of ServiceRecord: no warmup gate.
ServiceRecordUngated(s, k, st) ==
    LET p == s.proc[k] IN
    IF ~p.recorded
    THEN [AppendRecord(s, p.req_id, p.arrival_time, s.now, s.now - p.arrival_time, st)
            EXCEPT !.proc[k].recorded = TRUE]
    ELSE s

\* Mutant of ServiceRecord: the arrival time is stored as the finish time.
ServiceRecordArrivalAsFinish(s, k, st) ==
    LET p == s.proc[k] IN
    IF p.arrival_time >= s.cfg.warmup_ms /\ ~p.recorded
    THEN [AppendRecord(s, p.req_id, p.arrival_time, p.arrival_time,
                       s.now - p.arrival_time, st)
            EXCEPT !.proc[k].recorded = TRUE]
    ELSE s

\* service(), lines 149-156: the record, gated on warmup and on "recorded"
ServiceRecord(s, k, st) ==
    LET p == s.proc[k] IN
    IF p.arrival_time >= s.cfg.warmup_ms /\ ~p.recorded
    THEN [AppendRecord(s, p.req_id, p.arrival_time, s.now, s.now - p.arrival_time, st)
            EXCEPT !.proc[k].recorded = TRUE]
    ELSE s

\* service() after service_fn returned or raised Interrupt: the record, then
\* the generator ends and Process._resume schedules the process event.
FinishService(s, k, st) ==
    Schedule([ServiceRecord(s, k, st) EXCEPT !.proc[k].svc = "done"],
             NORMAL, 0, "svc_proc", k, "none")

\* _sync_service, from line 66 back to line 48
SyncEnd(s, k) == FinishService(ExitRequest(s, "worker", k), k, COMPLETED)

SyncPost(s, k) ==
    IF s.proc[k].cpu_post > 0 THEN Hold(s, k, s.proc[k].cpu_post, "cpu_post")
    ELSE SyncEnd(s, k)

\* Mutant of SyncIo: the worker slot is given back before the I/O.
SyncIoWithoutWorker(s, k) ==
    IF s.proc[k].io_wait > 0
    THEN Acquire(ExitRequest(s, "worker", k), k, "io", "io_req")
    ELSE SyncPost(s, k)

SyncIo(s, k) ==
    IF s.proc[k].io_wait > 0 THEN Acquire(s, k, "io", "io_req")
    ELSE SyncPost(s, k)

SyncPre(s, k) ==
    IF s.proc[k].cpu_pre > 0 THEN Hold(s, k, s.proc[k].cpu_pre, "cpu_pre")
    ELSE SyncIo(s, k)

SyncStart(s, k) == Acquire(s, k, "worker", "worker_req")

\* _sync_service resumed at the yield it is suspended on
SyncResume(s, k) ==
    LET pc == s.proc[k].svc IN
    CASE pc = "worker_req" -> SyncPre(s, k)
      [] pc = "cpu_pre" -> SyncIo(s, k)
      [] pc = "io_req" -> Hold(s, k, s.proc[k].io_wait, "io_wait")
      [] pc = "io_wait" -> SyncPost(ExitRequest(s, "io", k), k)
      [] pc = "cpu_post" -> SyncEnd(s, k)

\* Mutant of SyncUnwind: an interrupt during the I/O block leaves only the
\* worker block, so the I/O slot, or the place in its queue, is never given
\* back.
SyncUnwindKeepingIo(s, k) == ExitRequest(s, "worker", k)

\* _sync_service with Interrupt thrown at the yield it is suspended on: the
\* enclosing with-blocks exit, innermost first
SyncUnwind(s, k) ==
    LET pc == s.proc[k].svc IN
    IF pc \in {"io_req", "io_wait"}
    THEN ExitRequest(ExitRequest(s, "io", k), "worker", k)
    ELSE ExitRequest(s, "worker", k)

\* _async_service, from line 101 back to line 82
AsyncEnd(s, k) == FinishService(s, k, COMPLETED)

AsyncPost(s, k) ==
    IF s.proc[k].cpu_post > 0 THEN Acquire(s, k, "worker", "req2")
    ELSE AsyncEnd(s, k)

AsyncIo(s, k) ==
    IF s.proc[k].io_wait > 0 THEN Acquire(s, k, "io", "io_req")
    ELSE AsyncPost(s, k)

AsyncStart(s, k) ==
    IF s.proc[k].cpu_pre > 0 THEN Acquire(s, k, "worker", "req1")
    ELSE AsyncIo(s, k)

\* Mutant of AsyncResume: the worker slot is kept after the CPU segment
\* before the I/O.
AsyncResumeKeepingWorker(s, k) ==
    LET pc == s.proc[k].svc IN
    CASE pc = "req1" -> Hold(s, k, s.proc[k].cpu_pre, "cpu_pre")
      [] pc = "cpu_pre" -> AsyncIo(s, k)
      [] pc = "io_req" -> Hold(s, k, s.proc[k].io_wait, "io_wait")
      [] pc = "io_wait" -> AsyncPost(ExitRequest(s, "io", k), k)
      [] pc = "req2" -> Hold(s, k, s.proc[k].cpu_post, "cpu_post")
      [] pc = "cpu_post" -> AsyncEnd(ExitRequest(s, "worker", k), k)

\* Mutant of AsyncResume: the worker slot is given back only once the I/O
\* slot is granted.
AsyncResumeLateRelease(s, k) ==
    LET pc == s.proc[k].svc IN
    CASE pc = "req1" -> Hold(s, k, s.proc[k].cpu_pre, "cpu_pre")
      [] pc = "cpu_pre" ->
            IF s.proc[k].io_wait > 0 THEN AsyncIo(s, k)
            ELSE AsyncIo(ExitRequest(s, "worker", k), k)
      [] pc = "io_req" ->
            Hold(ExitRequest(s, "worker", k), k, s.proc[k].io_wait, "io_wait")
      [] pc = "io_wait" -> AsyncPost(ExitRequest(s, "io", k), k)
      [] pc = "req2" -> Hold(s, k, s.proc[k].cpu_post, "cpu_post")
      [] pc = "cpu_post" -> AsyncEnd(ExitRequest(s, "worker", k), k)

AsyncResume(s, k) ==
    LET pc == s.proc[k].svc IN
    CASE pc = "req1" -> Hold(s, k, s.proc[k].cpu_pre, "cpu_pre")
      [] pc = "cpu_pre" -> AsyncIo(ExitRequest(s, "worker", k), k)
      [] pc = "io_req" -> Hold(s, k, s.proc[k].io_wait, "io_wait")
      [] pc = "io_wait" -> AsyncPost(ExitRequest(s, "io", k), k)
      [] pc = "req2" -> Hold(s, k, s.proc[k].cpu_post, "cpu_post")
      [] pc = "cpu_post" -> AsyncEnd(ExitRequest(s, "worker", k), k)

AsyncUnwind(s, k) ==
    IF s.proc[k].svc \in {"io_req", "io_wait"}
    THEN ExitRequest(s, "io", k)
    ELSE ExitRequest(s, "worker", k)

\* service_fn = _async_service if is_async else _sync_service
ServiceStart(s, k) ==
    IF s.cfg.mode = "async" THEN AsyncStart(s, k) ELSE SyncStart(s, k)

ServiceResume(s, k) ==
    IF s.cfg.mode = "async" THEN AsyncResume(s, k) ELSE SyncResume(s, k)

ServiceUnwind(s, k) ==
    IF s.cfg.mode = "async" THEN AsyncUnwind(s, k) ELSE SyncUnwind(s, k)

\* the yields of the service sub-process, by what it is suspended on
HoldPcs == {"cpu_pre", "io_wait", "cpu_post"}

RequestPcs(p) == IF p = "worker" THEN {"worker_req", "req1", "req2"} ELSE {"io_req"}

\* samplers.time_exponential: rng.exponential(scale = mean_ms)
TimeExponential(mean_ms, e) == mean_ms * e

\* samplers.arrival_poisson: rng.exponential(scale = 1 / (rate_rps / 1000))
ArrivalPoisson(scale_ms, e) == scale_ms * e

\* cpu_pre = total_cpu * split, with split = u / 2
CpuPre(total, u) == (total * u) \div 2

\* cpu_post = total_cpu * (1 - split)
CpuPost(total, u) == (total * (2 - u)) \div 2

\* service(), lines 128-142: the three draws, then service_fn up to its
\* first yield
InitService(s, k, e_cpu, u, e_io) ==
    LET total == TimeExponential(s.cfg.cpu_mean_ms, e_cpu)
        s1 == [s EXCEPT !.proc[k].cpu_pre = CpuPre(total, u),
                        !.proc[k].cpu_post = CpuPost(total, u),
                        !.proc[k].io_wait = TimeExponential(s.cfg.io_mean_ms, e_io),
                        !.drawLog = @ \o <<[kind |-> "cpu", k |-> k],
                                           [kind |-> "split", k |-> k],
                                           [kind |-> "io", k |-> k]>>]
    IN ServiceStart(s1, k)

\* Mutant of Interrupted: the interrupt branch of service() records without
\* regard to "recorded".
InterruptedRecording(s, k) ==
    IF s.proc[k].svc = "done" THEN s
    ELSE FinishService(ServiceUnwind([s EXCEPT !.proc[k].recorded = FALSE], k),
                       k, TIMEOUT)

\* Interruption._interrupt: nothing if the process has terminated; else the
\* Interrupt is thrown into service(): the with-blocks exit, `except
\* simpy.Interrupt` sets status = timeout, and lines 149-156 follow.
Interrupted(s, k) ==
    IF s.proc[k].svc = "done" THEN s
    ELSE FinishService(ServiceUnwind(s, k), k, TIMEOUT)

\* ---------------------------------------------------------- request process

\* wrap_request after _request_process returned: in_system -= 1, the
\* generator ends and the process event is scheduled
RequestReturn(s, k) ==
    Schedule([s EXCEPT !.in_system = @ - 1, !.proc[k].rp = "done"],
             NORMAL, 0, "wrap_proc", k, "none")

\* Mutant of InitRequest: the service sub-process starts at normal priority,
\* so an arrival timer of the same time that was scheduled earlier runs first.
InitRequestServiceNormal(s, k) ==
    LET s1 == [s EXCEPT !.proc[k].req_id = s.req_id,
                        !.proc[k].arrival_time = s.now,
                        !.proc[k].recorded = FALSE,
                        !.proc[k].svc = "init",
                        !.proc[k].rp = "wait"]
        s2 == Schedule(s1, NORMAL, 0, "init_service", k, "none")
    IN IF s.cfg.timeout_ms > 0
       THEN Schedule([s2 EXCEPT !.proc[k].timer = "scheduled",
                                !.proc[k].cond = "pending"],
                     NORMAL, s.cfg.timeout_ms, "request_timeout", k, "none")
       ELSE s2

\* Mutant of InitRequest: the timer is armed for timeout_ms = 0 too.
InitRequestTimerAtZero(s, k) ==
    LET s1 == [s EXCEPT !.proc[k].req_id = s.req_id,
                        !.proc[k].arrival_time = s.now,
                        !.proc[k].recorded = FALSE,
                        !.proc[k].svc = "init",
                        !.proc[k].rp = "wait"]
        s2 == Schedule(s1, URGENT, 0, "init_service", k, "none")
    IN IF s.cfg.timeout_ms >= 0
       THEN Schedule([s2 EXCEPT !.proc[k].timer = "scheduled",
                                !.proc[k].cond = "pending"],
                     NORMAL, s.cfg.timeout_ms, "request_timeout", k, "none")
       ELSE s2

\* wrap_request's first step: _request_process lines 123-124 and 158-161
\* (or 176).  req_id is the arrival loop's variable, read now.
InitRequest(s, k) ==
    LET s1 == [s EXCEPT !.proc[k].req_id = s.req_id,
                        !.proc[k].arrival_time = s.now,
                        !.proc[k].recorded = FALSE,
                        !.proc[k].svc = "init",
                        !.proc[k].rp = "wait"]
        s2 == Schedule(s1, URGENT, 0, "init_service", k, "none")
    IN IF s.cfg.timeout_ms > 0
       THEN Schedule([s2 EXCEPT !.proc[k].timer = "scheduled",
                                !.proc[k].cond = "pending"],
                     NORMAL, s.cfg.timeout_ms, "request_timeout", k, "none")
       ELSE s2

\* Mutant of ConditionCheck: the condition succeeds at urgent priority, so the
\* request process resumes before any other event of that time.
ConditionCheckUrgent(s, k) ==
    IF s.proc[k].cond = "pending"
    THEN Schedule([s EXCEPT !.proc[k].cond = "triggered"],
                  URGENT, 0, "condition", k, "none")
    ELSE s

\* Mutant of ConditionCheck: the check stays registered on the other event
\* after the condition has succeeded, and succeeds again.
ConditionCheckAgain(s, k) ==
    Schedule([s EXCEPT !.proc[k].cond = "triggered"],
             NORMAL, 0, "condition", k, "none")

\* Condition._check for svc_proc | timeout_evt (AnyOf): the first of the two
\* to be processed makes the condition succeed
ConditionCheck(s, k) ==
    IF s.proc[k].cond = "pending"
    THEN Schedule([s EXCEPT !.proc[k].cond = "triggered"],
                  NORMAL, 0, "condition", k, "none")
    ELSE s

\* timeout_evt is processed
TimerFired(s, k) == ConditionCheck([s EXCEPT !.proc[k].timer = "processed"], k)

\* the process event of the service sub-process is processed: its callback is
\* the condition's _check or, without a timer (line 176), the request process
ServiceProcessed(s, k) ==
    IF s.cfg.timeout_ms > 0 THEN ConditionCheck(s, k) ELSE RequestReturn(s, k)

\* Mutant of Interrupt: the RuntimeError of a terminated process is not
\* caught, so it leaves the request process and ends the run.
InterruptUncaught(s, k) ==
    IF s.proc[k].svc = "done" THEN [s EXCEPT !.status = "failed"]
    ELSE Schedule(s, URGENT, 0, "interruption", k, "none")

\* svc_proc.interrupt("timeout"): RuntimeError (swallowed) if the process has
\* terminated, else an Interruption is scheduled, urgent
Interrupt(s, k) ==
    IF s.proc[k].svc = "done" THEN s
    ELSE Schedule(s, URGENT, 0, "interruption", k, "none")

\* Mutant of AfterRace: the timer branch does not test "recorded".
AfterRaceIgnoringRecorded(s, k) ==
    LET p == s.proc[k] IN
    IF p.timer = "processed"
    THEN LET s1 == IF p.arrival_time >= s.cfg.warmup_ms
                   THEN AppendRecord(s, p.req_id, p.arrival_time, s.now,
                                     s.cfg.timeout_ms, TIMEOUT)
                   ELSE s
         IN [Interrupt(s1, k) EXCEPT !.proc[k].recorded = TRUE]
    ELSE s

\* lines 162-174, with result holding the events processed by now
AfterRace(s, k) ==
    LET p == s.proc[k] IN
    IF p.timer = "processed" /\ ~p.recorded
    THEN LET s1 == IF p.arrival_time >= s.cfg.warmup_ms
                   THEN AppendRecord(s, p.req_id, p.arrival_time, s.now,
                                     s.cfg.timeout_ms, TIMEOUT)
                   ELSE s
         IN [Interrupt(s1, k) EXCEPT !.proc[k].recorded = TRUE]
    ELSE s

\* the condition is processed: _build_value, then the request process resumes
ConditionProcessed(s, k) ==
    RequestReturn(AfterRace([s EXCEPT !.proc[k].cond = "processed"], k), k)

\* ---------------------------------------------------------- arrival process

\* while True: arrival = arrival_times(); yield env.timeout(arrival)
NextArrival(s, e) ==
    Schedule([s EXCEPT !.drawLog = Append(@, [kind |-> "arrival",
                                              k |-> Len(s.arrLog) + 1])],
             NORMAL,
             ArrivalPoisson(s.cfg.arrival_scale_ms, e), "arrival_timeout", 0, "none")

\* Mutant of Drop: a dropped arrival does not consume a req_id.
DropKeepingReqId(s) == AppendRecord(s, s.req_id, s.now, s.now, 0, DROPPED)

\* Mutant of Drop: a dropped arrival is counted into in_system.
DropCountingInSystem(s) ==
    LET s1 == [s EXCEPT !.req_id = @ + 1, !.in_system = @ + 1] IN
    AppendRecord(s1, s1.req_id, s.now, s.now, 0, DROPPED)

\* lines 206-215: the arrival is dropped
Drop(s) ==
    LET s1 == [s EXCEPT !.req_id = @ + 1] IN
    AppendRecord(s1, s1.req_id, s.now, s.now, 0, DROPPED)

\* lines 217-241: the arrival is admitted and its process spawned
Admit(s, k) ==
    Schedule([s EXCEPT !.req_id = @ + 1, !.in_system = @ + 1,
                       !.proc[k] = [NoProc EXCEPT !.rp = "init"]],
             URGENT, 0, "init_request", k, "none")

\* Mutant of Admitted: the admission test is off by one.
AdmittedOffByOne(s) == s.in_system <= MaxInSystem(s.cfg)

\* Mutant of Admitted: the queue places are not counted.
AdmittedWithoutQueue(s) == s.in_system < NumThreads(s.cfg)

\* line 206: the arrival is admitted unless in_system >= max_in_system
Admitted(s) == s.in_system < MaxInSystem(s.cfg)

\* the arrival loop resumed by its timer: one arrival (the k-th of the run),
\* then the next inter-arrival
Arrival(s, e) ==
    LET k == Len(s.arrLog) + 1
        ok == Admitted(s)
        s1 == [s EXCEPT !.arrLog = Append(@, [time |-> s.now, admitted |-> ok])]
    IN NextArrival(IF ok THEN Admit(s1, k) ELSE Drop(s1), e)

\* The draws the arrival loop may take for the inter-arrival after its n-th
\* arrival: any, until MaxArrivals arrivals are made; then one that lands at
\* beyond the horizon.
ArrivalDraws(c, n) == IF n < MaxArrivals THEN Draws ELSE {2 * c.sim_time_ms}

\* the same for a run that makes one arrival more
MoreArrivalDraws(c, n) == IF n < MaxArrivals + 1 THEN Draws ELSE {2 * c.sim_time_ms}

\* ------------------------------------------------------------ simulate_server

\* Mutant of Start: the stop event is scheduled far after sim_time_ms.
StartWithLateStop(c) ==
    [cfg |-> c, status |-> "running", now |-> 0, eidc |-> 2,
     queue |-> {[time |-> 0, prio |-> URGENT, eid |-> 0, kind |-> "init_arrival",
                 k |-> 0, pool |-> "none"],
                [time |-> 2 * c.sim_time_ms, prio |-> URGENT, eid |-> 1,
                 kind |-> "until", k |-> 0, pool |-> "none"]},
     req_id |-> 0, in_system |-> 0, proc |-> [k \in Procs |-> NoProc],
     users |-> [p \in Pools |-> <<>>], putq |-> [p \in Pools |-> <<>>],
     records |-> <<>>, arrLog |-> <<>>, drawLog |-> <<>>]

\* Mutant of Start: env.run() is called without `until`, so no stop event is
\* scheduled.
StartWithoutStop(c) ==
    [cfg |-> c, status |-> "running", now |-> 0, eidc |-> 1,
     queue |-> {[time |-> 0, prio |-> URGENT, eid |-> 0, kind |-> "init_arrival",
                 k |-> 0, pool |-> "none"]},
     req_id |-> 0, in_system |-> 0, proc |-> [k \in Procs |-> NoProc],
     users |-> [p \in Pools |-> <<>>], putq |-> [p \in Pools |-> <<>>],
     records |-> <<>>, arrLog |-> <<>>, drawLog |-> <<>>]

\* lines 277-278: simpy.Resource raises ValueError for a capacity <= 0;
\* simulate_server propagates it: nothing is scheduled, spawned or returned
Rejected(c) ==
    [cfg |-> c, status |-> "rejected", now |-> 0, eidc |-> 0, queue |-> {},
     req_id |-> 0, in_system |-> 0, proc |-> [k \in Procs |-> NoProc],
     users |-> [p \in Pools |-> <<>>], putq |-> [p \in Pools |-> <<>>],
     records |-> <<>>, arrLog |-> <<>>, drawLog |-> <<>>]

\* lines 269-314 up to env.run: the two resources are built, the arrival
\* process is spawned (its Initialize is event 0) and run(until) schedules
\* the stop event, urgent
Start(c) ==
    IF \E p \in Pools : Capacity(c, p) <= 0 THEN Rejected(c) ELSE
    [cfg |-> c, status |-> "running", now |-> 0, eidc |-> 2,
     queue |-> {[time |-> 0, prio |-> URGENT, eid |-> 0, kind |-> "init_arrival",
                 k |-> 0, pool |-> "none"],
                [time |-> c.sim_time_ms, prio |-> URGENT, eid |-> 1, kind |-> "until",
                 k |-> 0, pool |-> "none"]},
     req_id |-> 0, in_system |-> 0, proc |-> [k \in Procs |-> NoProc],
     users |-> [p \in Pools |-> <<>>], putq |-> [p \in Pools |-> <<>>],
     records |-> <<>>, arrLog |-> <<>>, drawLog |-> <<>>]

\* simulate_server is called with parameters c
Called(c) ==
    LET t == Start(c) IN
    /\ cfg = t.cfg
    /\ status = t.status
    /\ now = t.now
    /\ eidc = t.eidc
    /\ queue = t.queue
    /\ req_id = t.req_id
    /\ in_system = t.in_system
    /\ proc = t.proc
    /\ users = t.users
    /\ putq = t.putq
    /\ records = t.records
    /\ arrLog = t.arrLog
    /\ drawLog = t.drawLog
    /\ other = t
    /\ stream = <<>>

Init == \E c \in Configs : Called(c)

\* ------------------------------------------------------------------ actions
\* One env.step() each, by the kind of the event popped.

\* env.step() on event e: the clock moves to e and its callbacks run.  d holds
\* the generator's next variates, for the callbacks that sample.
Dispatch(s0, e, d) ==
    LET s == Pop(s0, e)
        k == e.k
    IN CASE e.kind = "init_arrival" -> NextArrival(s, d[1])
         [] e.kind = "arrival_timeout" -> Arrival(s, d[1])
         [] e.kind = "init_request" -> InitRequest(s, k)
         [] e.kind = "init_service" -> InitService(s, k, d[1], d[2], d[3])
         \* the service resumes if it still waits on this hold
         [] e.kind = "hold" ->
                IF s.proc[k].svc \in HoldPcs THEN ServiceResume(s, k) ELSE s
         \* _trigger_get finds no Release queued; the service resumes if it
         \* still waits on this Request
         [] e.kind = "request" ->
                IF s.proc[k].svc \in RequestPcs(e.pool) THEN ServiceResume(s, k) ELSE s
         [] e.kind = "release" -> TriggerPut(s, e.pool)
         [] e.kind = "request_timeout" -> TimerFired(s, k)
         [] e.kind = "svc_proc" -> ServiceProcessed(s, k)
         [] e.kind = "condition" -> ConditionProcessed(s, k)
         [] e.kind = "interruption" -> Interrupted(s, k)
         \* nothing waits on the process event of a request process
         [] e.kind = "wrap_proc" -> s
         \* StopSimulation: env.run(until = sim_time_ms) returns
         [] e.kind = "until" -> [s EXCEPT !.status = "stopped"]

NoDraw == <<0, 0, 0>>

\* env.step() pops an event of this kind
Step(kind, e, d) ==
    /\ status = "running"
    /\ e.kind = kind
    /\ Install(Dispatch(Cur, e, d))
    /\ UNCHANGED <<other, stream>>

\* Initialize of the arrival process: the loop runs to its first yield
StartArrivals ==
    \E e \in Smallest(queue) : \E d \in ArrivalDraws(cfg, 0) :
        Step("init_arrival", e, <<d, 0, 0>>)

\* the arrival loop's timer: one arrival, then the next inter-arrival
ArrivalStep ==
    \E e \in Smallest(queue) : \E d \in ArrivalDraws(cfg, Len(arrLog) + 1) :
        Step("arrival_timeout", e, <<d, 0, 0>>)

\* Initialize of a request process
RequestStart == \E e \in Smallest(queue) : Step("init_request", e, NoDraw)

\* Initialize of a service sub-process
ServiceStartStep ==
    \E e \in Smallest(queue) : \E e_cpu \in Draws, u \in Draws, e_io \in Draws :
        Step("init_service", e, <<e_cpu, u, e_io>>)

\* a timed hold of a service ends
HoldDone == \E e \in Smallest(queue) : Step("hold", e, NoDraw)

\* a granted Request is processed
RequestGranted == \E e \in Smallest(queue) : Step("request", e, NoDraw)

\* a Release is processed: its callback is the pool's _trigger_put
Released == \E e \in Smallest(queue) : Step("release", e, NoDraw)

\* the request timer (timeout_evt)
RequestTimeout == \E e \in Smallest(queue) : Step("request_timeout", e, NoDraw)

\* the process event of a service sub-process
ServiceDone == \E e \in Smallest(queue) : Step("svc_proc", e, NoDraw)

\* the condition svc_proc | timeout_evt
RaceDecided == \E e \in Smallest(queue) : Step("condition", e, NoDraw)

\* an Interruption
InterruptService == \E e \in Smallest(queue) : Step("interruption", e, NoDraw)

\* the process event of a request process
WrapDone == \E e \in Smallest(queue) : Step("wrap_proc", e, NoDraw)

\* the stop event of env.run(until = sim_time_ms)
Stop == \E e \in Smallest(queue) : Step("until", e, NoDraw)

Next ==
    \/ StartArrivals
    \/ ArrivalStep
    \/ RequestStart
    \/ ServiceStartStep
    \/ HoldDone
    \/ RequestGranted
    \/ Released
    \/ RequestTimeout
    \/ ServiceDone
    \/ RaceDecided
    \/ InterruptService
    \/ WrapDone
    \/ Stop

Spec == Init /\ [][Next]_vars

\* ---------------------------------------------------------------- two runs
\* simulate_server called twice with the same parameters and the same seed:
\* the two runs step side by side and read the same stream of variates.

\* what the generator can yield
StreamValues(c) == Draws \cup {2 * c.sim_time_ms}

\* the variates the callbacks of an event of this kind draw
Need(kind) ==
    IF kind = "init_service" THEN 3
    ELSE IF kind \in {"init_arrival", "arrival_timeout"} THEN 1
    ELSE 0

\* the next three variates of a run that has drawn pos of them
DrawsFrom(strm, pos) ==
    [i \in 1..3 |-> IF pos + i <= Len(strm) THEN strm[pos + i] ELSE 0]

\* the variates are within the model's bounds for the sampler that reads them
InBounds(s, e, d) ==
    CASE e.kind = "init_service" -> d[1] \in Draws /\ d[2] \in Draws /\ d[3] \in Draws
      [] e.kind = "init_arrival" -> d[1] \in ArrivalDraws(s.cfg, 0)
      [] e.kind = "arrival_timeout" -> d[1] \in ArrivalDraws(s.cfg, Len(s.arrLog) + 1)
      [] OTHER -> TRUE

\* a run whose env.run has returned takes no step
Idle == [time |-> 0, prio |-> NORMAL, eid |-> 0, kind |-> "idle", k |-> 0, pool |-> "none"]

\* the events env.step() of run s may pop next
Poppable(s) == IF s.status = "running" THEN Smallest(s.queue) ELSE {Idle}

\* run s after its step on e, reading the stream strm
RunStep(s, e, strm) ==
    IF e.kind = "idle" THEN s
    ELSE Dispatch(s, e, DrawsFrom(strm, Len(s.drawLog)))

Longest(a, b, c) ==
    IF a >= b /\ a >= c THEN a ELSE IF b >= c THEN b ELSE c

\* both runs take one step; the stream grows by what the run that is ahead
\* draws
NextTwoRuns ==
    /\ <<status, other.status>> # <<"stopped", "stopped">>
    /\ \E e1 \in Poppable(Cur), e2 \in Poppable(other) :
        LET n == Longest(Len(stream), Len(drawLog) + Need(e1.kind),
                         Len(other.drawLog) + Need(e2.kind)) - Len(stream)
        IN \E x \in [1..n -> StreamValues(cfg)] :
            LET strm == stream \o x IN
            /\ InBounds(Cur, e1, DrawsFrom(strm, Len(drawLog)))
            /\ InBounds(other, e2, DrawsFrom(strm, Len(other.drawLog)))
            /\ Install(RunStep(Cur, e1, strm))
            /\ other' = RunStep(other, e2, strm)
            /\ stream' = strm

\* the parameters of the two runs: those that keep every record (no warmup)
TwoRunConfigs == {c \in Configs : c.warmup_ms = 0}

InitTwoRuns == \E c \in TwoRunConfigs : Called(c)

SpecTwoRuns == InitTwoRuns /\ [][NextTwoRuns]_vars

\* ------------------------------------------------------- any timeout_ms
\* simulate_server called with a negative, zero or positive timeout_ms.

AnyTimeoutsMs == {-1, 0, 2}

InitAnyTimeout == \E c \in ConfigSet(ThreadCounts, IoLimits, AnyTimeoutsMs) : Called(c)

SpecAnyTimeout == InitAnyTimeout /\ [][Next]_vars

\* ------------------------------------------------------- any capacities
\* simulate_server called with negative, zero or positive thread_count and
\* io_limit.

AnyThreadCounts == {-1, 0, 1}

AnyIoLimits == {0, 1}

InitAnyCapacity ==
    \E c \in ConfigSet(AnyThreadCounts, AnyIoLimits, TimeoutsMs) : Called(c)

SpecAnyCapacity == InitAnyCapacity /\ [][Next]_vars

\* ---------------------------------------------------------- longer runs
\* Runs of MaxArrivals + 1 arrivals, on a server of one thread and one I/O
\* slot.

\* the arrival loop's timer, in a run of MaxArrivals + 1 arrivals
MoreArrivalStep ==
    \E e \in Smallest(queue) : \E d \in MoreArrivalDraws(cfg, Len(arrLog) + 1) :
        Step("arrival_timeout", e, <<d, 0, 0>>)

NextMoreArrivals ==
    \/ StartArrivals
    \/ MoreArrivalStep
    \/ RequestStart
    \/ ServiceStartStep
    \/ HoldDone
    \/ RequestGranted
    \/ Released
    \/ RequestTimeout
    \/ ServiceDone
    \/ RaceDecided
    \/ InterruptService
    \/ WrapDone
    \/ Stop

InitMoreArrivals == \E c \in ConfigSet({1}, {1}, TimeoutsMs) : Called(c)

SpecMoreArrivals == InitMoreArrivals /\ [][NextMoreArrivals]_vars

\* ------------------------------------------------------------- longer I/O
\* simulate_server called with an I/O mean of twice the default, so that an
\* I/O wait can span the instant of the request's timer.

LongIoMeansMs == {2}

InitLongIo ==
    \E c \in Configs : \E m \in LongIoMeansMs : Called([c EXCEPT !.io_mean_ms = m])

SpecLongIo == InitLongIo /\ [][Next]_vars

\* ---------------------------------------------------------- deeper queues
\* Runs of MaxArrivals + 1 arrivals on a server of one I/O slot: in sync mode
\* with three threads, so that two requests can wait for the I/O slot; in
\* async mode with one queue place, so that two requests contend for the
\* worker slot.

DeepQueueConfigs ==
    {c \in ConfigSet({3}, {1}, TimeoutsMs) :
        /\ c.warmup_ms = 0
        /\ c.queue_limit = (IF c.mode = "async" THEN 1 ELSE 0)}

InitDeepQueue == \E c \in DeepQueueConfigs : Called(c)

SpecDeepQueue == InitDeepQueue /\ [][NextMoreArrivals]_vars

\* Runs whose horizon lies beyond the end of every request the arrival loop
\* admits (arrivals come at most ArrivalScalesMs apart and a service takes at
\* most CpuMeansMs + IoMeansMs once it has its slots), on a server of two
\* threads and one I/O slot.  env.run() steps as long as an event is
\* scheduled and the stop event has not been processed: weak fairness of the
\* step.
FarSimTimesMs == {16}

FarHorizonConfigs ==
    {[c EXCEPT !.sim_time_ms = t] :
        c \in {d \in ConfigSet({2}, {1}, TimeoutsMs) :
                    /\ d.warmup_ms = 0
                    /\ d.queue_limit = (IF d.mode = "async" THEN 1 ELSE 0)},
        t \in FarSimTimesMs}

InitFarHorizon == \E c \in FarHorizonConfigs : Called(c)

SpecFarHorizon == InitFarHorizon /\ [][Next]_vars /\ WF_vars(Next)

\* Runs of the arrival loop as the code has it, `while True`, with every
\* inter-arrival variate at least 1: the horizon alone ends the arrivals (at
\* most sim_time_ms / ArrivalScalesMs - 1 of them), on a server of one thread
\* and one I/O slot.  env.run() steps until the stop event is processed.
PositiveDraws == {1, 2}

StartPositiveArrivals ==
    \E e \in Smallest(queue) : \E d \in PositiveDraws :
        Step("init_arrival", e, <<d, 0, 0>>)

PositiveArrivalStep ==
    \E e \in Smallest(queue) : \E d \in PositiveDraws :
        Step("arrival_timeout", e, <<d, 0, 0>>)

NextPositiveArrivals ==
    \/ StartPositiveArrivals
    \/ PositiveArrivalStep
    \/ RequestStart
    \/ ServiceStartStep
    \/ HoldDone
    \/ RequestGranted
    \/ Released
    \/ RequestTimeout
    \/ ServiceDone
    \/ RaceDecided
    \/ InterruptService
    \/ WrapDone
    \/ Stop

InitPositiveArrivals == \E c \in ConfigSet({1}, {1}, TimeoutsMs) : Called(c)

SpecPositiveArrivals ==
    InitPositiveArrivals /\ [][NextPositiveArrivals]_vars
        /\ WF_vars(NextPositiveArrivals)

\* ------------------------------------------------------------------- claims

Rows == 1..Len(records)

\* the rows carrying req_id id
RowsOf(id) == {i \in Rows : records[i].req_id = id}

Arrivals == 1..Len(arrLog)

Terminated(k) == proc[k].rp = "done"

\* C1 (as stated): when simulate_server returns, every arrival has exactly
\* one record carrying its req_id.
C1_ExactlyOneRecordPerArrival ==
    status = "stopped" => \A k \in Arrivals : Cardinality(RowsOf(k)) = 1

\* C1 (amended): every arrival has at most one record carrying its req_id,
\* with status completed, timeout or dropped; it has exactly one if it was
\* dropped, or if it was admitted at or after warmup_ms and its request
\* process has terminated; it has none if it was admitted before warmup_ms.
C1_OneRecordPerRecordedArrival ==
    /\ \A i \in Rows : records[i].status \in {COMPLETED, TIMEOUT, DROPPED}
    /\ \A k \in Arrivals :
        LET n == Cardinality(RowsOf(k)) IN
        /\ n <= 1
        /\ ~arrLog[k].admitted => n = 1
        /\ arrLog[k].admitted /\ arrLog[k].time >= cfg.warmup_ms /\ Terminated(k)
              => n = 1
        /\ arrLog[k].admitted /\ arrLog[k].time < cfg.warmup_ms => n = 0

\* C1 witness: the run has returned with one arrival admitted after warmup,
\* terminated and recorded, and another arrival without any record.
C1_Witness ==
    /\ status = "stopped"
    /\ \E k \in Arrivals :
        /\ arrLog[k].admitted /\ arrLog[k].time >= cfg.warmup_ms /\ Terminated(k)
        /\ Cardinality(RowsOf(k)) = 1
    /\ \E k \in Arrivals : RowsOf(k) = {}

\* C2: no two records carry the same req_id.
C2_AtMostOneRecordPerRequest ==
    \A i, j \in Rows : records[i].req_id = records[j].req_id => i = j

\* C2 witness: the timer and the completing service fell on the same virtual
\* time: the timer was processed, the service recorded "completed", and the
\* request process has handled the race.
C2_Witness ==
    \E k \in Arrivals :
        /\ Terminated(k) /\ proc[k].timer = "processed"
        /\ \E i \in RowsOf(k) : records[i].status = COMPLETED

\* C3: latency_ms is finish_time - arrival_time for completed, timeout_ms
\* for timeout and 0 for dropped.
C3_LatencyByStatus ==
    \A i \in Rows :
        LET r == records[i] IN
        /\ r.status = COMPLETED => r.latency_ms = r.finish_time - r.arrival_time
        /\ r.status = TIMEOUT => r.latency_ms = cfg.timeout_ms
        /\ r.status = DROPPED => r.latency_ms = 0

\* C3 witness: a completed record of a request that arrived after time 0 and
\* took time, and a timeout record.
C3_Witness ==
    /\ \E i \in Rows : /\ records[i].status = COMPLETED
                       /\ records[i].arrival_time > 0
                       /\ records[i].latency_ms > 0
    /\ \E i \in Rows : records[i].status = TIMEOUT

\* C4: the k-th arrival is given req_id k (req_id counts every arrival), each
\* started request process holds its own arrival's req_id and arrival time,
\* and each record carries the req_id and arrival time of one arrival, which
\* was dropped iff the record says so.
C4_ReqIdIsArrivalOrdinal ==
    /\ req_id = Len(arrLog)
    /\ \A k \in Arrivals :
        proc[k].rp \in {"wait", "done"} =>
            /\ arrLog[k].admitted
            /\ proc[k].req_id = k
            /\ proc[k].arrival_time = arrLog[k].time
    /\ \A i \in Rows :
        LET r == records[i] IN
        /\ r.req_id \in Arrivals
        /\ r.arrival_time = arrLog[r.req_id].time
        /\ (r.status = DROPPED) = ~arrLog[r.req_id].admitted

\* C4 witness: the next arrival came with a zero inter-arrival, and both it
\* and the arrival before it were admitted and recorded.
C4_Witness ==
    /\ Len(arrLog) >= 2
    /\ arrLog[1].time = arrLog[2].time
    /\ \E i, j \in Rows :
        /\ records[i].req_id = 1 /\ records[i].status # DROPPED
        /\ records[j].req_id = 2 /\ records[j].status # DROPPED

\* C5: 0 <= in_system <= max_in_system = worker_capacity + queue_limit, with
\* worker_capacity = thread_count (sync) or 1 (async).
C5_InSystemBounded ==
    /\ 0 <= in_system
    /\ in_system <= (IF cfg.mode = "async" THEN 1 ELSE cfg.thread_count)
                        + cfg.queue_limit

\* C5 witness: the system was full and an arrival was dropped.
C5_Witness ==
    /\ in_system = MaxInSystem(cfg)
    /\ \E k \in Arrivals : ~arrLog[k].admitted

\* the requests in a CPU segment (a timed hold of cpu_pre or cpu_post)
InCpu == {k \in Procs : proc[k].svc \in {"cpu_pre", "cpu_post"}}

\* C6: each pool's in_use is within 0..capacity (thread_count, or 1 in async
\* mode, for worker_pool; io_limit for io_pool), and in async mode at most one
\* request is in a CPU segment.
C6_PoolsWithinCapacity ==
    /\ Len(users["worker"]) <= (IF cfg.mode = "async" THEN 1 ELSE cfg.thread_count)
    /\ Len(users["io"]) <= cfg.io_limit
    /\ cfg.mode = "async" => Cardinality(InCpu) <= 1

\* C6 witness: async mode with thread_count 2: one request in a CPU segment
\* holds the only worker slot and another waits for it.
C6_Witness ==
    /\ cfg.mode = "async" /\ cfg.thread_count = 2
    /\ Len(users["worker"]) = 1 /\ InCpu # {}
    /\ putq["worker"] # <<>>

\* C7: every record has arrival_time <= finish_time <= sim_time_ms.
C7_FinishWithinHorizon ==
    \A i \in Rows :
        /\ records[i].arrival_time <= records[i].finish_time
        /\ records[i].finish_time <= cfg.sim_time_ms

\* C7 witness: the run has returned with records, leaving the last hold of a
\* service scheduled at or after the horizon.
C7_Witness ==
    /\ status = "stopped" /\ records # <<>>
    /\ \E e \in queue :
        /\ e.kind = "hold" /\ e.time >= cfg.sim_time_ms
        /\ proc[e.k].svc = "cpu_post"

\* C8: no completed or timeout record has arrival_time < warmup_ms.
C8_NoEarlyCompletedOrTimeout ==
    \A i \in Rows :
        records[i].status \in {COMPLETED, TIMEOUT}
            => records[i].arrival_time >= cfg.warmup_ms

\* C8 witness: a request that arrived before warmup_ms has terminated
\* unrecorded after its timer was processed and the request process reached
\* its recording code.
C8_Witness ==
    \E k \in Arrivals :
        /\ arrLog[k].time < cfg.warmup_ms /\ Terminated(k)
        /\ proc[k].timer = "processed" /\ proc[k].recorded
        /\ RowsOf(k) = {}

\* C9 (as stated): no dropped record has arrival_time < warmup_ms.
C9_NoEarlyDropped ==
    \A i \in Rows :
        records[i].status = DROPPED => records[i].arrival_time >= cfg.warmup_ms

DrawPos == 1..Len(drawLog)

ServiceDraws == {"cpu", "split", "io"}

\* C11 (as stated): the three draws of an admitted request are taken in the
\* order CPU, split, I/O, and all before the arrival loop draws the
\* inter-arrival time of the next arrival.
C11_ServiceDrawsBeforeNextArrivalDraw ==
    \A i, j \in DrawPos :
        /\ drawLog[i].kind \in ServiceDraws
        /\ drawLog[j] = [kind |-> "arrival", k |-> drawLog[i].k + 1]
        => i < j

\* C11 (amended): the generator is drawn in the order next inter-arrival,
\* CPU, split, I/O: the CPU, split and I/O draws of an admitted request are
\* consecutive, in this order and taken once; the arrival loop has drawn the
\* inter-arrival time of the next arrival before them, and draws every later
\* inter-arrival time after them.
C11_DrawOrder ==
    \A i \in DrawPos :
        LET k == drawLog[i].k IN
        /\ drawLog[i].kind = "cpu" =>
            /\ k \in Arrivals /\ arrLog[k].admitted
            /\ i + 2 <= Len(drawLog)
            /\ drawLog[i + 1] = [kind |-> "split", k |-> k]
            /\ drawLog[i + 2] = [kind |-> "io", k |-> k]
            /\ \E j \in 1..(i - 1) : drawLog[j] = [kind |-> "arrival", k |-> k + 1]
            /\ \A j \in DrawPos :
                /\ drawLog[j].kind = "arrival" /\ drawLog[j].k > k + 1 => i + 2 < j
                /\ drawLog[j] = drawLog[i] => j = i
        /\ drawLog[i].kind = "split" => i > 1 /\ drawLog[i - 1].kind = "cpu"
        /\ drawLog[i].kind = "io" => i > 2 /\ drawLog[i - 2].kind = "cpu"

\* C11 witness: an admitted request has taken its three draws, the next
\* arrival came at the same virtual time, and the arrival loop has drawn the
\* inter-arrival time after that one.
C11_Witness ==
    \E i, j \in DrawPos :
        LET k == drawLog[i].k IN
        /\ drawLog[i].kind = "cpu"
        /\ k + 1 \in Arrivals /\ arrLog[k + 1].time = arrLog[k].time
        /\ drawLog[j] = [kind |-> "arrival", k |-> k + 2]

EventsOf(kind, k) == {e \in queue : e.kind = kind /\ e.k = k}

\* the timer of request k was processed and the request process has not yet
\* resumed from the condition
TimerAhead(k) == proc[k].timer = "processed" /\ proc[k].cond = "triggered"

\* the row service() appends for request k when its service ends now
CompletedRow(k) ==
    [req_id |-> proc[k].req_id, arrival_time |-> proc[k].arrival_time,
     finish_time |-> now, latency_ms |-> now - proc[k].arrival_time,
     status |-> COMPLETED]

Range(q) == {q[i] : i \in 1..Len(q)}

\* the requests whose service is past its first acquire and has not ended
InService == {k \in Procs : proc[k].svc \in {"cpu_pre", "io_req", "io_wait", "cpu_post"}}

\* C13: in sync mode every request that holds an io_pool slot, or is queued
\* for one, holds a worker_pool slot; io_pool.in_use <= worker_pool.in_use
\* <= thread_count; and at most thread_count requests are in service.
C13_SyncHoldsWorkerAcrossIo ==
    cfg.mode = "sync" =>
        /\ Range(users["io"]) \cup Range(putq["io"]) \subseteq Range(users["worker"])
        /\ Len(users["io"]) <= Len(users["worker"])
        /\ Len(users["worker"]) <= cfg.thread_count
        /\ Cardinality(InService) <= cfg.thread_count

\* C13 witness: sync mode with two threads and one I/O slot: one request is
\* in its I/O wait and another is queued for the I/O slot, both holding a
\* worker slot.
C13_Witness ==
    /\ cfg.mode = "sync" /\ cfg.thread_count = 2
    /\ Len(users["worker"]) = 2
    /\ \E k \in Range(users["io"]) : proc[k].svc = "io_wait"
    /\ putq["io"] # <<>>

Min(a, b) == IF a <= b THEN a ELSE b

\* C14: in async mode the requests holding io_pool slots hold no worker_pool
\* slot, and their number is bounded by io_limit and max_in_system only: with
\* io_limit >= 2 and queue_limit >= 1 it exceeds worker_capacity = 1 (the
\* witness).
C14_AsyncIoBeyondWorkerCapacity ==
    cfg.mode = "async" =>
        /\ Range(users["io"]) \cap Range(users["worker"]) = {}
        /\ Len(users["io"]) <= Min(cfg.io_limit, MaxInSystem(cfg))

\* C14 witness: async mode, io_limit 2 and queue_limit 1: two requests are
\* in their I/O wait at once, more than the one worker slot, and as many as
\* io_limit and max_in_system allow.
C14_Witness ==
    /\ cfg.mode = "async" /\ cfg.io_limit >= 2 /\ cfg.queue_limit >= 1
    /\ Len(users["io"]) > NumThreads(cfg)
    /\ Len(users["io"]) = Min(cfg.io_limit, MaxInSystem(cfg))
    /\ \A k \in Range(users["io"]) : proc[k].svc = "io_wait"

\* C15: with timeout_ms <= 0 no request has a timer or a condition, no record
\* has status timeout, no service is interrupted, and every admitted request
\* whose service has ended is recorded completed if it arrived at or after
\* warmup_ms (and not at all otherwise).
C15_NoTimerWithoutTimeout ==
    cfg.timeout_ms <= 0 =>
        /\ \A i \in Rows : records[i].status # TIMEOUT
        /\ \A e \in queue :
                e.kind \notin {"request_timeout", "condition", "interruption"}
        /\ \A k \in Procs :
            /\ proc[k].timer = "none" /\ proc[k].cond = "none"
            /\ proc[k].svc = "done" =>
                IF proc[k].arrival_time >= cfg.warmup_ms
                THEN \E i \in RowsOf(k) : records[i].status = COMPLETED
                ELSE RowsOf(k) = {}

\* C15 witness: with a negative timeout_ms a request was recorded completed
\* after 2 ms or more in the system, and another, admitted before warmup_ms,
\* has ended its service unrecorded.
C15_Witness ==
    /\ cfg.timeout_ms < 0
    /\ \E i \in Rows : records[i].status = COMPLETED /\ records[i].latency_ms >= 2
    /\ \E k \in Arrivals :
            proc[k].svc = "done" /\ proc[k].arrival_time < cfg.warmup_ms

\* C16 (as stated): simulate_server called with thread_count <= 0 or
\* io_limit <= 0, in either mode, is rejected before any process is spawned
\* and before any record is produced.
C16_InvalidCapacityRejected ==
    cfg.thread_count <= 0 \/ cfg.io_limit <= 0 =>
        /\ status = "rejected"
        /\ queue = {} /\ eidc = 0
        /\ records = <<>> /\ arrLog = <<>>

\* C17: along the record sequence finish_time is non-decreasing, and among
\* the dropped records req_id is strictly increasing.
C17_EmissionInFinishOrder ==
    \A i, j \in Rows :
        i < j =>
            /\ records[i].finish_time <= records[j].finish_time
            /\ records[i].status = DROPPED /\ records[j].status = DROPPED
                    => records[i].req_id < records[j].req_id

\* C17 witness: two arrivals were dropped, at different times, and the
\* request admitted before them was recorded after them.
C17_Witness ==
    \E i, j, l \in Rows :
        /\ i < j /\ j < l
        /\ records[i].status = DROPPED /\ records[j].status = DROPPED
        /\ records[i].finish_time < records[j].finish_time
        /\ records[l].status # DROPPED
        /\ records[l].req_id < records[i].req_id

\* the pcs at which a service is inside a with-block of pool p
BlockPcs(c, p) ==
    IF p = "io" THEN {"io_req", "io_wait"}
    ELSE IF c.mode = "async" THEN {"req1", "cpu_pre", "req2", "cpu_post"}
    ELSE {"worker_req", "cpu_pre", "io_req", "io_wait", "cpu_post"}

\* request k holds no slot of any pool and waits in no put queue
NoResidue(k) ==
    \A p \in Pools : k \notin Range(users[p]) /\ k \notin Range(putq[p])

\* C18: an interruption is processed at the virtual time of the timeout,
\* before the clock advances, and ends the service with no slot held and no
\* place in a wait queue, wherever it was suspended; every slot in use and
\* every queued acquire belongs, once, to a service inside a with-block of
\* that pool (in_use does not drift), so no slot is ever granted to, or
\* kept by, a request whose service has ended.
C18_NoResidueAfterInterrupt ==
    /\ [](\A p \in Pools :
            /\ \A k \in Range(users[p]) \cup Range(putq[p]) :
                    proc[k].svc \in BlockPcs(cfg, p)
            /\ \A k \in Range(putq[p]) : proc[k].svc \in RequestPcs(p)
            /\ Range(users[p]) \cap Range(putq[p]) = {}
            /\ Cardinality(Range(users[p])) = Len(users[p])
            /\ Cardinality(Range(putq[p])) = Len(putq[p]))
    /\ [](\A k \in Procs :
            /\ proc[k].svc = "done" => NoResidue(k)
            /\ \A e \in EventsOf("interruption", k) :
                    e.time = now /\ e.time = proc[k].arrival_time + cfg.timeout_ms)
    /\ [][\A k \in Procs :
            EventsOf("interruption", k) # {} =>
                /\ now' = now
                /\ EventsOf("interruption", k)' = {} =>
                        proc'[k].svc = "done" /\ NoResidue(k)']_vars

\* C18 witness: in sync mode a service was interrupted during its I/O wait,
\* holding a worker slot and an I/O slot: both were released at the time of
\* the timeout (their Release events are still scheduled, as is the
\* abandoned hold), and the request is recorded with status timeout.
C18_Witness ==
    \E k \in Arrivals :
        /\ cfg.mode = "sync" /\ proc[k].svc = "done" /\ NoResidue(k)
        /\ now = proc[k].arrival_time + cfg.timeout_ms
        /\ \E i \in RowsOf(k) : records[i].status = TIMEOUT
        /\ \E e \in EventsOf("release", k) : e.pool = "io"
        /\ \E e \in EventsOf("release", k) : e.pool = "worker"
        /\ \E e \in EventsOf("hold", k) : e.time > now

\* the admitted requests whose request process has not terminated
Live == {k \in Arrivals : arrLog[k].admitted /\ ~Terminated(k)}

\* the admitted requests whose request process has terminated
Ended == {k \in Arrivals : arrLog[k].admitted /\ Terminated(k)}

\* C19: in_system is the number of admitted requests whose request process
\* has not terminated; a step changes it by +1 exactly when it admits an
\* arrival, by -1 exactly when one request process terminates, and not at all
\* otherwise (a dropped arrival included).
C19_InSystemCountsLiveRequests ==
    /\ [](in_system = Cardinality(Live))
    /\ [][LET arrived == Len(arrLog') = Len(arrLog) + 1
               admitted == arrived /\ arrLog'[Len(arrLog')].admitted
               ended == Ended' \ Ended
           IN /\ Len(arrLog') \in {Len(arrLog), Len(arrLog) + 1}
              /\ admitted => ended = {} /\ in_system' = in_system + 1
              /\ ended # {} => Cardinality(ended) = 1 /\ in_system' = in_system - 1
              /\ ~admitted /\ ended = {} => in_system' = in_system]_vars

\* C19 witness: one request has terminated after its timer fired, one
\* arrival was dropped and one admitted request is still in the system.
C19_Witness ==
    /\ in_system = 1
    /\ \E k \in Ended : \E i \in RowsOf(k) : records[i].status = TIMEOUT
    /\ \E k \in Arrivals : ~arrLog[k].admitted
    /\ Live # {}

\* the row the arrival loop appends for an arrival dropped in this step
DroppedRow ==
    [req_id |-> req_id + 1, arrival_time |-> now', finish_time |-> now',
     latency_ms |-> 0, status |-> DROPPED]

\* the events this step has scheduled
Scheduled == {e \in queue' : e.eid >= eidc}

TimerPops(k) ==
    EventsOf("request_timeout", k) # {} /\ EventsOf("request_timeout", k)' = {}

\* C21: when the timer of a request whose service has completed before it is
\* processed, the request process has already terminated and the step does
\* nothing but remove the timer from the schedule: no record is appended, no
\* event (interrupt or other) is scheduled, in_system and both pools are
\* unchanged.
C21_LateTimerHasNoEffect ==
    [][\A k \in Procs :
        TimerPops(k) /\ proc[k].svc = "done" =>
            /\ Terminated(k)
            /\ records' = records
            /\ in_system' = in_system
            /\ users' = users /\ putq' = putq
            /\ eidc' = eidc /\ queue' \subseteq queue
            /\ proc' = [proc EXCEPT ![k].timer = "processed"]]_vars

\* C21 witness: the timer of a request was processed after its service had
\* completed at an earlier virtual time; the request is recorded completed
\* and another request is still in the system.
C21_Witness ==
    \E k \in Arrivals :
        /\ proc[k].timer = "processed" /\ Terminated(k)
        /\ now = proc[k].arrival_time + cfg.timeout_ms
        /\ \E i \in RowsOf(k) :
            /\ records[i].status = COMPLETED
            /\ records[i].finish_time < now
        /\ in_system > 0

\* the place of x in the sequence q
Index(q, x) == CHOOSE i \in 1..Len(q) : q[i] = x

\* the requests this step grants a slot of pool p
Granted(p) == {e.k : e \in {f \in Scheduled : f.kind = "request" /\ f.pool = p}}

\* the waiters of pool p that stay keep their order, ahead of the new ones
KeepsOrder(p) ==
    \A x, y \in Range(putq'[p]) :
        Index(putq'[p], x) < Index(putq'[p], y) =>
            IF y \in Range(putq[p])
            THEN x \in Range(putq[p]) /\ Index(putq[p], x) < Index(putq[p], y)
            ELSE TRUE

C23_WaiterOnlyWhenFull ==
    \A p \in Pools : putq[p] # <<>> => Len(users[p]) = Capacity(cfg, p)

\* the Releases of pool p that are scheduled, all for the current time
Releases(p) == {e \in queue : e.kind = "release" /\ e.pool = p}

\* the free slots of pool p
Free(p) == Capacity(cfg, p) - Len(users[p])

\* this step processes a Release of pool p
ReleasePops(p) == Cardinality(Releases(p)') < Cardinality(Releases(p))

\* C23 (amended): a pool has a waiter and a free slot at an event boundary
\* only between the step that gave the slot back and the processing of its
\* Release, which is scheduled for the same virtual time: there are then at
\* least as many Releases scheduled as free slots, and the clock does not
\* advance.  A Release processed while a slot is free and the queue is not
\* empty grants exactly the head waiter, at the current time.
C23_FreeSlotOnlyUntilRelease ==
    /\ [](\A p \in Pools :
            /\ \A e \in Releases(p) : e.time = now
            /\ putq[p] # <<>> => Free(p) <= Cardinality(Releases(p)))
    /\ [][\A p \in Pools :
            /\ now' # now => (putq[p] # <<>> => Free(p) = 0)
            /\ ReleasePops(p) /\ putq[p] # <<>> /\ Free(p) > 0 =>
                    /\ now' = now
                    /\ users'[p] = Append(users[p], Head(putq[p]))
                    /\ putq'[p] = Tail(putq[p])
                    /\ Granted(p) = {Head(putq[p])}
                    /\ \A e \in Scheduled : e.time = now]_vars

\* C23 witness: a request waits for a pool that has a free slot: the slot
\* was given back in an earlier step and its Release is not yet processed.
C23_Witness ==
    \E p \in Pools :
        /\ putq[p] # <<>> /\ Free(p) > 0
        /\ Releases(p) # {}
        /\ \A k \in Range(putq[p]) : EventsOf("request", k) = {}

\* C24: in async mode no request holds, or waits for, slots of both pools at
\* once; a worker slot is held only by a request in its CPU-pre or CPU-post
\* hold (or just granted the slot for it, at the same virtual time), and an
\* I/O slot is held or waited for only by a request between its two CPU
\* segments.
C24_AsyncOnePoolAtATime ==
    cfg.mode = "async" =>
        \A k \in Procs :
            LET w == k \in Range(users["worker"]) \cup Range(putq["worker"])
                io == k \in Range(users["io"]) \cup Range(putq["io"])
            IN /\ ~(w /\ io)
               /\ k \in Range(users["worker"]) =>
                    \/ proc[k].svc \in {"cpu_pre", "cpu_post"}
                    \/ /\ proc[k].svc \in {"req1", "req2"}
                       /\ \E e \in EventsOf("request", k) :
                            e.pool = "worker" /\ e.time = now
               /\ k \in Range(putq["worker"]) => proc[k].svc \in {"req1", "req2"}
               /\ io => proc[k].svc \in {"io_req", "io_wait"}

\* C24 witness: in async mode a request that has had its CPU-pre segment is
\* in its I/O wait while another request holds the worker slot in a CPU
\* segment.
C24_Witness ==
    \E k, j \in Arrivals :
        /\ cfg.mode = "async" /\ k # j
        /\ proc[k].cpu_pre > 0 /\ proc[k].svc = "io_wait"
        /\ k \in Range(users["io"])
        /\ users["worker"] = <<j>> /\ proc[j].svc \in {"cpu_pre", "cpu_post"}

\* this step processes the condition svc_proc | timeout_evt of request k
ConditionPops(k) ==
    EventsOf("condition", k) # {} /\ EventsOf("condition", k)' = {}

\* C25: when the request process takes the timer branch for a service that
\* has already terminated, the run goes on, no record is appended, no pool
\* changes, no interruption is scheduled, and in_system is decremented by
\* this step, which ends the request process; a terminated request process
\* has no condition left to resume it, so it is decremented once.
C25_InterruptOfCompletedService ==
    /\ [][\A k \in Procs :
            /\ ConditionPops(k)
            /\ proc[k].svc = "done"
            /\ proc[k].timer = "processed" /\ ~proc[k].recorded
            => /\ status' = "running"
               /\ records' = records
               /\ users' = users /\ putq' = putq
               /\ in_system' = in_system - 1
               /\ ~Terminated(k) /\ Terminated(k)'
               /\ proc' = [proc EXCEPT ![k].cond = "processed",
                                       ![k].recorded = TRUE,
                                       ![k].rp = "done"]
               /\ \A e \in Scheduled : e.kind = "wrap_proc" /\ e.k = k]_vars
    /\ [](\A k \in Procs : Terminated(k) => EventsOf("condition", k) = {})

\* C25 witness: a request that arrived before warmup_ms took the timer branch
\* after its service had completed at the same virtual time: it has ended
\* unrecorded, with "recorded" set, and the process event of its service was
\* processed before that of the request process (after an interrupt the
\* order is the other way round).
C25_Witness ==
    \E k \in Arrivals :
        /\ proc[k].arrival_time < cfg.warmup_ms
        /\ Terminated(k) /\ proc[k].svc = "done"
        /\ proc[k].timer = "processed" /\ proc[k].recorded
        /\ RowsOf(k) = {}
        /\ EventsOf("wrap_proc", k) # {} /\ EventsOf("svc_proc", k) = {}
        /\ now = proc[k].arrival_time + cfg.timeout_ms

\* C26: in a run whose horizon is not reached, every admitted request
\* eventually terminates, with its service ended and no slot or queue place
\* of either pool left to it.
C26_AdmittedEventuallyTerminates ==
    \A k \in Procs :
        (k \in Arrivals /\ arrLog[k].admitted)
            ~> (Terminated(k) /\ proc[k].svc = "done" /\ NoResidue(k))

\* C26 witness: in sync mode without timeouts a request that waited for the
\* I/O slot while holding a worker slot has terminated, recorded completed,
\* before the horizon.
C26_Witness ==
    \E k \in Arrivals :
        /\ cfg.mode = "sync" /\ cfg.timeout_ms = 0 /\ now < cfg.sim_time_ms
        /\ Terminated(k) /\ proc[k].io_wait > 0
        /\ \E i \in RowsOf(k) :
            /\ records[i].status = COMPLETED
            /\ records[i].latency_ms >
                    proc[k].cpu_pre + proc[k].io_wait + proc[k].cpu_post

\* C27: with inter-arrival times bounded below by a positive value the run
\* returns: the stop event stays scheduled at sim_time_ms while the run goes
\* on, no event is processed at or after sim_time_ms, env.run returns when
\* the clock reaches sim_time_ms, whatever is still scheduled or in service,
\* and nothing changes afterwards (no record is emitted for what was
\* abandoned).
C27_RunTerminates ==
    /\ <>(status = "stopped")
    /\ [](status = "running" =>
            /\ now < cfg.sim_time_ms
            /\ \E e \in queue : e.kind = "until" /\ e.time = cfg.sim_time_ms)
    /\ [](status = "stopped" =>
            /\ now = cfg.sim_time_ms
            /\ \A e \in queue : e.time >= cfg.sim_time_ms
            /\ \A k \in Live : ~proc[k].recorded => RowsOf(k) = {})
    /\ [][status = "stopped" => UNCHANGED vars]_vars

\* C27 witness: the run has returned at sim_time_ms after the arrival loop
\* made two arrivals or more, with the loop's next arrival and a hold of a
\* request in service still scheduled, and that request, which arrived at or
\* after warmup_ms, without a record.
C27_Witness ==
    /\ status = "stopped" /\ now = cfg.sim_time_ms
    /\ Len(arrLog) >= 2
    /\ \E e \in queue : e.kind = "arrival_timeout"
    /\ \E k \in Live :
        /\ proc[k].arrival_time >= cfg.warmup_ms
        /\ RowsOf(k) = {}
        /\ EventsOf("hold", k) # {}

\* this step processes the Interruption of the service of request k
InterruptionPops(k) ==
    EventsOf("interruption", k) # {} /\ EventsOf("interruption", k)' = {}

\* C28: with timeout_ms > 0 every record other than dropped has
\* finish_time - arrival_time <= timeout_ms, and a timeout record has
\* finish_time = arrival_time + timeout_ms (its latency is timeout_ms); a
\* timeout record is appended only by the request process, resumed by its
\* condition at the virtual time of the timer, after the timer was
\* processed; the step in which the service is interrupted finds "recorded"
\* set and appends nothing.
C28_BoundedResponse ==
    /\ [](cfg.timeout_ms > 0 =>
            \A i \in Rows :
                records[i].status # DROPPED =>
                    /\ records[i].finish_time - records[i].arrival_time
                            <= cfg.timeout_ms
                    /\ records[i].status = TIMEOUT =>
                            /\ records[i].finish_time =
                                    records[i].arrival_time + cfg.timeout_ms
                            /\ records[i].latency_ms = cfg.timeout_ms)
    /\ [][\A k \in Procs :
            /\ InterruptionPops(k) =>
                    /\ proc[k].recorded /\ records' = records
                    /\ proc'[k].svc = "done"
            /\ (/\ Len(records') > Len(records)
                /\ records'[Len(records')].status = TIMEOUT
                /\ records'[Len(records')].req_id = proc[k].req_id
                /\ proc[k].rp # "none")
                => /\ ConditionPops(k) /\ proc[k].timer = "processed"
                   /\ now' = proc[k].arrival_time + cfg.timeout_ms
                   /\ Len(records') = Len(records) + 1
                   /\ Terminated(k)']_vars

\* C28 witness: a request has its only record, a timeout record with
\* finish_time = arrival_time + timeout_ms, and its service has since been
\* interrupted and has ended (the hold it was suspended on is still
\* scheduled); another request is recorded completed within the limit.
C28_Witness ==
    \E k, j \in Arrivals :
        /\ cfg.timeout_ms > 0
        /\ Cardinality(RowsOf(k)) = 1
        /\ \E i \in RowsOf(k) :
            /\ records[i].status = TIMEOUT
            /\ records[i].finish_time = records[i].arrival_time + cfg.timeout_ms
        /\ proc[k].svc = "done" /\ EventsOf("interruption", k) = {}
        /\ \E e \in EventsOf("hold", k) : e.time > now
        /\ \E i \in RowsOf(j) :
            /\ records[i].status = COMPLETED
            /\ records[i].latency_ms <= cfg.timeout_ms

====
